---- MODULE Spec2Model ----
(***************************************************************************)
(* Model of hooks/useGame.ts: the state held by the useGame hook and the   *)
(* scoring options it derives from that state (getPossibleScores with its  *)
(* local fallback calculateLocalScore).                                    *)
(***************************************************************************)
EXTENDS Integers, Sequences, FiniteSets, Bags, TLC

VARIABLES
  gameState,       \* useState: the game as last received from the backend
  currentGameId,   \* useState: number | null
  possibleScores,  \* useState: PossibleScores | null
  loading,         \* useState: boolean
  error,           \* useState: string | null
  options,         \* what the last call of getPossibleScores returned
  renderedFor,     \* the hand, score sheet and possibleScores of that call
  inflight,        \* API calls started through handleApiCall, not yet settled
  fetchedFor,      \* the game and dice for which possibleScores was requested
  effectPending    \* "none", or the call whose result changed the dependencies
                   \* of the auto-fetch effect, which has yet to run

vars == <<gameState, currentGameId, possibleScores, loading, error, options,
          renderedFor, inflight, fetchedFor, effectPending>>

(* ----------------------------- bounds ---------------------------------- *)

\* largest score a backend score sheet records for a played category
MaxRecorded == 1
\* largest score a backend possible-scores response carries
MaxApiScore == 1
\* largest number of categories already played on a backend score sheet
MaxPlayed == 1
\* largest number of API calls in flight at once
MaxInFlight == 2
\* largest game id the backend hands out
MaxGames == 2

(* ------------------------- JavaScript values --------------------------- *)

\* A value that is `T | null` is the empty tuple for null and <<v>> for a value
\* v, so that a recorded 0 and null stay different values.
Null == <<>>
Some(v) == <<v>>
\* obj[undefined]: the key is coerced to the property name "undefined"
UndefinedKey == "undefined"
\* value of `options` before getPossibleScores has been called
NoOptions == <<>>

\* `key in obj`: a property the object lacks reads as undefined
Has(obj, key) == key \in DOMAIN obj

(* ------------------------------ types ---------------------------------- *)

\* ScoreCategory: the keys of categoryMap / scoreMap / the score sheet
ScoreCategory ==
  {"ones", "twos", "threes", "fours", "fives", "sixes",
   "threeOfkind", "fourOfkind", "fullHouse",
   "smallStraight", "largeStraight", "yahtzee", "chance"}

DieValues == 1..6
Hand == [1..5 -> DieValues]

\* scoreSheet of the initial useState value: every category unplayed
initialScoreSheet ==
  [ones |-> Null, twos |-> Null, threes |-> Null, fours |-> Null,
   fives |-> Null, sixes |-> Null,
   upperBonus |-> 0, upperTotal |-> 0,
   threeOfkind |-> Null, fourOfkind |-> Null, fullHouse |-> Null,
   smallStraight |-> Null, largeStraight |-> Null, yahtzee |-> Null,
   chance |-> Null,
   lowerTotal |-> 0]

initialGameState ==
  [dice |-> <<1, 1, 1, 1, 1>>,
   selectedDice |-> <<>>,
   rollsLeft |-> 3,
   currentRound |-> 1,
   scoreSheet |-> initialScoreSheet,
   gameComplete |-> FALSE,
   totalScore |-> 0]

(* ------------------------ getPossibleScores ---------------------------- *)

\* the `categories` array literal, in source order
categories ==
  << [category |-> "ones",          name |-> "Ones"],
     [category |-> "twos",          name |-> "Twos"],
     [category |-> "threes",        name |-> "Threes"],
     [category |-> "fours",         name |-> "Fours"],
     [category |-> "fives",         name |-> "Fives"],
     [category |-> "sixes",         name |-> "Sixes"],
     [category |-> "threeOfkind",   name |-> "Three of a Kind"],
     [category |-> "fouroOkind",    name |-> "Four of a Kind"],
     [category |-> "fullHouse",     name |-> "Full House"],
     [category |-> "smallStraight", name |-> "Small Straight"],
     [category |-> "largeStraight", name |-> "Large Straight"],
     [category |-> "yahtzee",       name |-> "YAHTZEE!"],
     [category |-> "chance",        name |-> "Chance"] >>

\* the `scoreMap` object literal
scoreMap ==
  [ones |-> "ones", twos |-> "twos", threes |-> "threes", fours |-> "fours",
   fives |-> "fives", sixes |-> "sixes",
   threeOfkind |-> "threeOfkind", fourOfkind |-> "fourOfkind",
   fullHouse |-> "fullHouse", smallStraight |-> "smallStraight",
   largeStraight |-> "largeStraight", yahtzee |-> "yahtzee",
   chance |-> "chance"]

(* ----------------------- calculateLocalScore --------------------------- *)

\* acc[die] = (acc[die] || 0) + 1; return acc
countStep(acc, die) ==
  [k \in DOMAIN acc \cup {die} |->
     IF k = die THEN (IF die \in DOMAIN acc THEN acc[die] ELSE 0) + 1
     ELSE acc[k]]

\* dice.reduce(countStep, acc), left to right
RECURSIVE countsFrom(_, _)
countsFrom(acc, arr) ==
  IF arr = <<>> THEN acc ELSE countsFrom(countStep(acc, Head(arr)), Tail(arr))

\* `counts`: an object keyed by die value
countsOf(dice) == countsFrom([k \in {} |-> 0], dice)

\* Object.values(obj) of an object with integer keys: ascending key order
RECURSIVE ObjectValues(_)
ObjectValues(obj) ==
  IF DOMAIN obj = {} THEN <<>>
  ELSE LET k == CHOOSE x \in DOMAIN obj : \A y \in DOMAIN obj : x <= y
       IN  <<obj[k]>> \o ObjectValues([j \in DOMAIN obj \ {k} |-> obj[j]])

\* String(n) for n >= 0, as the sequence of its decimal digits
RECURSIVE toDigits(_)
toDigits(n) == IF n < 10 THEN <<n>> ELSE toDigits(n \div 10) \o <<n % 10>>

\* a < b as strings (code-unit order; a proper prefix comes first)
RECURSIVE strLess(_, _)
strLess(a, b) ==
  IF b = <<>> THEN FALSE
  ELSE IF a = <<>> THEN TRUE
  ELSE IF Head(a) # Head(b) THEN Head(a) < Head(b)
  ELSE strLess(Tail(a), Tail(b))

\* whether a sorts before b: under (a, b) => a - b, or, with no comparator,
\* as strings
before(comparator, a, b) ==
  IF comparator = "numeric" THEN a < b
  ELSE strLess(toDigits(a), toDigits(b))

\* x put into an array already in order
RECURSIVE insertBy(_, _, _)
insertBy(comparator, x, arr) ==
  IF arr = <<>> THEN <<x>>
  ELSE IF before(comparator, x, Head(arr)) THEN <<x>> \o arr
  ELSE <<Head(arr)>> \o insertBy(comparator, x, Tail(arr))

RECURSIVE sortBy(_, _)
sortBy(comparator, arr) ==
  IF arr = <<>> THEN <<>>
  ELSE insertBy(comparator, Head(arr), sortBy(comparator, Tail(arr)))

\* [...dice].sort((a, b) => a - b)
sortNumeric(arr) == sortBy("numeric", arr)

\* arr.sort() with no comparator: elements compared as strings
sortDefault(arr) == sortBy("default", arr)

\* [...new Set(arr)]: first occurrences, in insertion order
RECURSIVE uniqueOf(_)
uniqueOf(arr) ==
  IF arr = <<>> THEN <<>>
  ELSE LET init == uniqueOf(SubSeq(arr, 1, Len(arr) - 1))
           last == arr[Len(arr)]
       IN  IF \E i \in DOMAIN init : init[i] = last THEN init
           ELSE Append(init, last)

\* arr.join('') of die values: the string of their digits
RECURSIVE join(_)
join(arr) == IF arr = <<>> THEN <<>> ELSE toDigits(Head(arr)) \o join(Tail(arr))

\* str.includes(sub)
includes(str, sub) ==
  \E i \in 0..(Len(str) - Len(sub)) : SubSeq(str, i + 1, i + Len(sub)) = sub

\* arr.reduce((a, b) => a + b, acc), left to right
RECURSIVE sumFrom(_, _)
sumFrom(acc, arr) ==
  IF arr = <<>> THEN acc ELSE sumFrom(acc + Head(arr), Tail(arr))

\* variant: the fold misses the first die
sumFromSecond(dice) == sumFrom(0, Tail(dice))
\* dice.reduce((a, b) => a + b, 0)
sum(dice) == sumFrom(0, dice)

\* Object.values(counts).some(c => c >= n)
someCountAtLeast(dice, n) ==
  LET values == ObjectValues(countsOf(dice))
  IN  \E i \in DOMAIN values : values[i] >= n

\* variant: the count is not multiplied by the face value
upperCount(dice, n) == Len(SelectSeq(dice, LAMBDA d : d = n))
\* dice.filter(d => d === n).length * n
upperScore(dice, n) == Len(SelectSeq(dice, LAMBDA d : d = n)) * n

\* variant: four equal dice already count as a yahtzee
yahtzeeAtLeastFour(dice) == IF someCountAtLeast(dice, 4) THEN 50 ELSE 0
\* Object.values(counts).some(c => c === 5) ? 50 : 0
yahtzeeScore(dice) ==
  LET values == ObjectValues(countsOf(dice))
  IN  IF \E i \in DOMAIN values : values[i] = 5 THEN 50 ELSE 0

\* the switch of calculateLocalScore; a category with no case label takes
\* the default branch
calculateLocalScore(dice, category) ==
  CASE category = "ones"   -> upperScore(dice, 1)
    [] category = "twos"   -> upperScore(dice, 2)
    [] category = "threes" -> upperScore(dice, 3)
    [] category = "fours"  -> upperScore(dice, 4)
    [] category = "fives"  -> upperScore(dice, 5)
    [] category = "sixes"  -> upperScore(dice, 6)
    [] category = "threeofkind" ->
         IF someCountAtLeast(dice, 3) THEN sum(dice) ELSE 0
    [] category = "fourofkind" ->
         IF someCountAtLeast(dice, 4) THEN sum(dice) ELSE 0
    [] category = "fullhouse" ->
         LET values == sortDefault(ObjectValues(countsOf(dice)))
         IN  IF Len(values) = 2 /\ values[1] = 2 /\ values[2] = 3
             THEN 25 ELSE 0
    [] category = "smallstraight" ->
         LET unique == uniqueOf(sortNumeric(dice))
             diceString == join(unique)
         IN  IF \E straight \in {<<1, 2, 3, 4>>, <<2, 3, 4, 5>>, <<3, 4, 5, 6>>} :
                  includes(diceString, straight)
             THEN 30 ELSE 0
    [] category = "largestraight" ->
         LET unique == uniqueOf(sortNumeric(dice))
         IN  IF Len(unique) = 5
                /\ (join(unique) = <<1, 2, 3, 4, 5>>
                    \/ join(unique) = <<2, 3, 4, 5, 6>>)
             THEN 40 ELSE 0
    [] category = "yahtzee" -> yahtzeeScore(dice)
    [] category = "chance"  -> sum(dice)
    [] OTHER -> 0

(* ------------------------ getPossibleScores ---------------------------- *)

\* scoreMap[category]; a category that is no key of scoreMap gives undefined
scoreKey(category) ==
  IF Has(scoreMap, category) THEN scoreMap[category] ELSE UndefinedKey

\* possibleScores && possibleScores[scoreMap[category]] !== undefined
apiProvides(ps, category) == ps # Null /\ Has(ps, scoreKey(category))

\* gameState.scoreSheet[category] === null
sheetEntryIsNull(sheet, category) ==
  Has(sheet, category) /\ sheet[category] = Null

\* the callback of categories.map
optionFor(gs, ps, entry) ==
  [category    |-> entry.category,
   name        |-> entry.name,
   score       |-> IF apiProvides(ps, entry.category)
                   THEN ps[scoreKey(entry.category)]
                   ELSE calculateLocalScore(gs.dice, entry.category),
   isAvailable |-> sheetEntryIsNull(gs.scoreSheet, entry.category)]

\* variant: a category is offered only once the dice have been rolled
getPossibleScoresOnceRolled(gs, ps) ==
  [i \in 1..Len(categories) |->
     [optionFor(gs, ps, categories[i]) EXCEPT
        !.isAvailable = @ /\ gs.rollsLeft < 3]]

getPossibleScores(gs, ps) ==
  [i \in 1..Len(categories) |-> optionFor(gs, ps, categories[i])]

(* --------------------- inputs of the scoring spec ---------------------- *)

\* score sheets a backend state can carry: some categories played
sheetWith(played, v) ==
  [k \in DOMAIN initialScoreSheet |->
     IF k \in played THEN Some(v) ELSE initialScoreSheet[k]]

ScoreSheets ==
  {sheetWith(played, v) :
     played \in {F \in SUBSET ScoreCategory : Cardinality(F) <= MaxPlayed},
     v \in 0..MaxRecorded}

\* possible-scores responses: every category scored, or one left out
ApiResponses ==
  {[k \in keys |-> v] :
     keys \in {ScoreCategory} \cup {ScoreCategory \ {c} : c \in ScoreCategory},
     v \in 0..MaxApiScore}

\* hands for which every sheet and every response is tried
BoundaryHands ==
  {<<1, 1, 1, 1, 1>>, <<1, 2, 3, 4, 5>>, <<2, 2, 3, 3, 3>>, <<6, 6, 6, 6, 2>>}

(* --------------------------- scoring spec ------------------------------ *)

\* the hook holds some backend state; no options have been computed yet
InitScoring ==
  /\ \E h \in Hand, s \in ScoreSheets, p \in {Null} \cup ApiResponses :
       /\ \/ s = initialScoreSheet /\ p = Null
          \/ h \in BoundaryHands
       /\ gameState = [initialGameState EXCEPT !.dice = h, !.scoreSheet = s,
                                               !.rollsLeft = 2]
       /\ possibleScores = p
  /\ currentGameId = Some(1)
  /\ loading = FALSE
  /\ error = Null
  /\ options = NoOptions
  /\ renderedFor = Null
  /\ inflight = EmptyBag
  /\ fetchedFor = Null
  /\ effectPending = "none"

\* a render calls getPossibleScores()
Render ==
  /\ options' = getPossibleScores(gameState, possibleScores)
  /\ renderedFor' = Some([dice |-> gameState.dice,
                          scoreSheet |-> gameState.scoreSheet,
                          possibleScores |-> possibleScores])
  /\ UNCHANGED <<gameState, currentGameId, possibleScores, loading, error,
                 inflight, fetchedFor, effectPending>>

NextScoring == Render

SpecScoring == InitScoring /\ [][NextScoring]_vars

(* ------------------ scoring of hands that are not valid ---------------- *)

\* dice a backend state may carry that are no hand: four dice, or five dice
\* with a value outside 1..6
InvalidHands ==
  [1..4 -> DieValues]
    \cup {h \in [1..5 -> 0..7] : \E i \in 1..5 : h[i] \notin DieValues}

\* mapBackendToFrontend copies backendState.dice unchecked
InitInvalidHand ==
  /\ \E h \in InvalidHands :
       gameState = [initialGameState EXCEPT !.dice = h, !.rollsLeft = 2]
  /\ possibleScores = Null
  /\ currentGameId = Some(1)
  /\ loading = FALSE
  /\ error = Null
  /\ options = NoOptions
  /\ renderedFor = Null
  /\ inflight = EmptyBag
  /\ fetchedFor = Null
  /\ effectPending = "none"

SpecInvalidHand == InitInvalidHand /\ [][NextScoring]_vars

(* ------------------------------ the hook ------------------------------- *)

\* !x of JavaScript for a `number | null`: null and 0 are falsy
falsyId(id) == id = Null \/ id[1] = 0

GameIds == 1..MaxGames

\* what the backend may answer: dice, rolls left and score sheet of the game
ServerHands == {<<1, 1, 1, 1, 1>>, <<6, 6, 6, 6, 2>>}
ServerSheets == {initialScoreSheet, sheetWith({"ones"}, MaxRecorded)}
BackendStates ==
  [dice : ServerHands, rollsLeft : 0..3, scoreSheet : ServerSheets,
   currentRound : {1}, gameComplete : {FALSE}, totalScore : {0}]

\* what the caller may pass
DieIndexes == {0}
UserCategories == {"ones", "fouroOkind"}

\* err.message of a rejected call
ErrorMessages == {"An error occurred"}

mapBackendToFrontend(backendState) ==
  [dice         |-> backendState.dice,
   selectedDice |-> <<>>,
   rollsLeft    |-> backendState.rollsLeft,
   currentRound |-> backendState.currentRound,
   scoreSheet   |-> backendState.scoreSheet,
   gameComplete |-> backendState.gameComplete,
   totalScore   |-> backendState.totalScore]

\* categoryMap[category]
categoryMap ==
  [ones |-> "ones", twos |-> "twos", threes |-> "threes", fours |-> "fours",
   fives |-> "fives", sixes |-> "sixes",
   threeOfkind |-> "threeofkind", fourOfkind |-> "fourofkind",
   fullHouse |-> "fullhouse", smallStraight |-> "smallStraight",
   largeStraight |-> "largeStraight", yahtzee |-> "yahtzee",
   chance |-> "chance"]

\* a call handed to gameApi: its kind and arguments; forDice is the hand the
\* hook held when possible scores were requested
apiCall(kind, id, selected, category, dice) ==
  [kind |-> kind, gameId |-> id, selectedDice |-> selected,
   category |-> category,
   forDice |-> IF kind = "getPossibleScores" THEN dice ELSE <<>>]

\* the calls in flight, with one more or one fewer
withCall(calls, call) == calls (+) SetToBag({call})
withoutCall(calls, call) == calls (-) SetToBag({call})

hasRoom(calls) == BagCardinality(calls) < MaxInFlight

\* the effect on [currentGameId, dice, rollsLeft]:
\* if (currentGameId && gameState.rollsLeft < 3) fetchPossibleScores()
\* an effect that fetches for every running game
effectFetchesWheneverGame(id, gs) == ~falsyId(id)

effectFetches(id, gs) == ~falsyId(id) /\ gs.rollsLeft < 3

\* rollDice: if (!currentGameId || gameState.rollsLeft <= 0) return
\* a guard that forgets the rolls left
rollReturnsEarlyWithoutGame(id, gs) == falsyId(id)

rollReturnsEarly(id, gs) == falsyId(id) \/ gs.rollsLeft <= 0

\* toggleDie: if (gameState.rollsLeft === 3) return
\* a guard that never returns
toggleNeverReturnsEarly(gs) == FALSE

toggleReturnsEarly(gs) == gs.rollsLeft = 3

\* scoreCategory:
\* if (!currentGameId || gameState.scoreSheet[category] !== null) return
\* a guard that forgets the score sheet
scoreReturnsEarlyWithoutGame(id, gs, category) == falsyId(id)

\* categoryMap[category] of a key the map may lack
backendCategory(category) ==
  IF Has(categoryMap, category) THEN categoryMap[category] ELSE UndefinedKey

scoreReturnsEarly(id, gs, category) ==
  falsyId(id) \/ ~sheetEntryIsNull(gs.scoreSheet, category)

\* prev.selectedDice.includes(index) ? filter(i => i !== index) : [..., index]
toggled(selected, index) ==
  IF \E i \in DOMAIN selected : selected[i] = index
  THEN SelectSeq(selected, LAMBDA i : i # index)
  ELSE Append(selected, index)

\* handleApiCall up to its await: setLoading(true); setError(null); apiCall()
StartCall(kind, id, selected, category) ==
  /\ hasRoom(inflight)
  /\ loading' = TRUE
  /\ error' = Null
  /\ inflight' = withCall(inflight,
                          apiCall(kind, id, selected, category, gameState.dice))
  /\ effectPending' = "none"
  /\ UNCHANGED <<gameState, currentGameId, possibleScores, fetchedFor,
                 options, renderedFor>>

\* an event handler or a response runs only once the effects of the last
\* render have run
Idle == effectPending = "none"

\* the state after construction: the initial useState values, and the mount
\* effect has called newGame('Player')
Init ==
  /\ gameState = initialGameState
  /\ currentGameId = Null
  /\ possibleScores = Null
  /\ loading = TRUE
  /\ error = Null
  /\ options = NoOptions
  /\ renderedFor = Null
  /\ inflight = SetToBag({apiCall("createNewGame", Null, <<>>, "", <<>>)})
  /\ fetchedFor = Null
  /\ effectPending = "none"

newGame ==
  /\ Idle
  /\ StartCall("createNewGame", Null, <<>>, "")

rollDice ==
  /\ Idle
  /\ IF rollReturnsEarly(currentGameId, gameState)
     THEN UNCHANGED vars
     ELSE StartCall("rollDice", currentGameId, gameState.selectedDice, "")

toggleDie ==
  \E index \in DieIndexes :
    /\ Idle
    /\ IF toggleReturnsEarly(gameState)
       THEN UNCHANGED vars
       ELSE /\ gameState' = [gameState EXCEPT
                               !.selectedDice = toggled(@, index)]
            /\ UNCHANGED <<currentGameId, possibleScores, loading, error,
                           options, renderedFor, inflight, fetchedFor,
                           effectPending>>

scoreCategory ==
  \E category \in UserCategories :
    /\ Idle
    /\ IF scoreReturnsEarly(currentGameId, gameState, category)
       THEN UNCHANGED vars
       ELSE StartCall("selectScore", currentGameId, <<>>,
                      backendCategory(category))

\* fetchPossibleScores as the caller of the hook may call it
fetchPossibleScores ==
  /\ Idle
  /\ IF falsyId(currentGameId)
     THEN UNCHANGED vars
     ELSE StartCall("getPossibleScores", currentGameId, <<>>, "")

\* the effect on [currentGameId, gameState.dice, gameState.rollsLeft] runs
\* after the render that saw them change
RunEffect ==
  /\ ~Idle
  /\ IF effectFetches(currentGameId, gameState)
     THEN StartCall("getPossibleScores", currentGameId, <<>>, "")
     ELSE /\ effectPending' = "none"
          /\ UNCHANGED <<gameState, currentGameId, possibleScores, loading,
                         error, options, renderedFor, inflight, fetchedFor>>

\* a resolving call that would also clear the error
SettledClearingError(call) ==
  /\ Idle
  /\ loading' = FALSE
  /\ error' = Null
  /\ inflight' = withoutCall(inflight, call)
  /\ effectPending' = call.kind
  /\ UNCHANGED <<options, renderedFor>>

\* a call resolves with a game state: the finally of handleApiCall, then the
\* setters of the caller; the dice are a new array, so the effect is due
Settled(call) ==
  /\ Idle
  /\ loading' = FALSE
  /\ inflight' = withoutCall(inflight, call)
  /\ effectPending' = call.kind
  /\ UNCHANGED <<error, options, renderedFor>>

\* createNewGame resolves
NewGameSucceeds ==
  \E call \in BagToSet(inflight), id \in GameIds, result \in BackendStates :
    /\ call.kind = "createNewGame"
    /\ currentGameId' = Some(id)
    /\ gameState' = mapBackendToFrontend(result)
    /\ possibleScores' = Null
    /\ fetchedFor' = Null
    /\ Settled(call)

\* rollDice resolves
RollSucceeds ==
  \E call \in BagToSet(inflight), result \in BackendStates :
    /\ call.kind = "rollDice"
    /\ gameState' = [mapBackendToFrontend(result) EXCEPT !.selectedDice = <<>>]
    /\ Settled(call)
    /\ UNCHANGED <<currentGameId, possibleScores, fetchedFor>>

\* selectScore resolves
ScoreSucceeds ==
  \E call \in BagToSet(inflight), result \in BackendStates :
    /\ call.kind = "selectScore"
    /\ gameState' = [mapBackendToFrontend(result) EXCEPT !.selectedDice = <<>>]
    /\ possibleScores' = Null
    /\ fetchedFor' = Null
    /\ Settled(call)
    /\ UNCHANGED currentGameId

\* the responses getPossibleScores may carry
FetchResults == {[k \in ScoreCategory |-> MaxApiScore]}

\* getPossibleScores resolves
FetchSucceeds ==
  \E call \in BagToSet(inflight), result \in FetchResults :
    /\ call.kind = "getPossibleScores"
    /\ Idle
    /\ loading' = FALSE
    /\ possibleScores' = result
    /\ fetchedFor' = Some([gameId |-> call.gameId, dice |-> call.forDice])
    /\ inflight' = withoutCall(inflight, call)
    /\ UNCHANGED <<gameState, currentGameId, error, options, renderedFor,
                   effectPending>>

\* any call rejects: the catch and finally of handleApiCall, and the caller
\* gets null
CallFails ==
  \E call \in BagToSet(inflight), message \in ErrorMessages :
    /\ Idle
    /\ error' = Some(message)
    /\ loading' = FALSE
    /\ inflight' = withoutCall(inflight, call)
    /\ UNCHANGED <<gameState, currentGameId, possibleScores, fetchedFor,
                   options, renderedFor, effectPending>>

Next ==
  \/ newGame
  \/ rollDice
  \/ toggleDie
  \/ scoreCategory
  \/ fetchPossibleScores
  \/ NewGameSucceeds
  \/ RollSucceeds
  \/ ScoreSucceeds
  \/ FetchSucceeds
  \/ CallFails
  \/ RunEffect

Spec == Init /\ [][Next]_vars

\* React runs a due effect, and every promise of gameApi settles
SpecFair ==
  /\ Spec
  /\ WF_vars(RunEffect)
  /\ WF_vars(NewGameSucceeds \/ RollSucceeds \/ ScoreSucceeds
               \/ FetchSucceeds \/ CallFails)

(* ------------------- rendering while a game is played ----------------- *)

\* a game has just been created: createNewGame has resolved with a game
\* whose turn has not started
InitRender ==
  /\ \E result \in BackendStates :
       /\ result.rollsLeft = 3
       /\ gameState = mapBackendToFrontend(result)
  /\ currentGameId = Some(1)
  /\ possibleScores = Null
  /\ loading = FALSE
  /\ error = Null
  /\ options = NoOptions
  /\ renderedFor = Null
  /\ inflight = EmptyBag
  /\ fetchedFor = Null
  /\ effectPending = "none"

\* the player rolls, scores and looks at the options of the one game
NextRender ==
  \/ Render
  \/ rollDice
  \/ scoreCategory
  \/ fetchPossibleScores
  \/ RollSucceeds
  \/ ScoreSucceeds
  \/ FetchSucceeds
  \/ CallFails
  \/ RunEffect

SpecRender == InitRender /\ [][NextRender]_vars

(* ------------------- the scoring rules, as specified ------------------- *)

\* the 13 category identifiers in their canonical order
CanonicalOrder ==
  <<"ones", "twos", "threes", "fours", "fives", "sixes",
    "threeOfkind", "fourOfkind", "fullHouse",
    "smallStraight", "largeStraight", "yahtzee", "chance">>

\* position of a category in the canonical order
pos(c) == CHOOSE i \in DOMAIN CanonicalOrder : CanonicalOrder[i] = c

\* number of dice of hand h showing v, the pips of h, the faces of h
occ(h, v) == Cardinality({i \in DOMAIN h : h[i] = v})
total(h) == h[1] + h[2] + h[3] + h[4] + h[5]
faces(h) == {h[i] : i \in DOMAIN h}

\* the score the rule of category c gives hand h
ruleScore(h, c) ==
  CASE c \in {"ones", "twos", "threes", "fours", "fives", "sixes"} ->
         occ(h, pos(c)) * pos(c)
    [] c = "threeOfkind" -> IF \E v \in DieValues : occ(h, v) >= 3 THEN total(h) ELSE 0
    [] c = "fourOfkind"  -> IF \E v \in DieValues : occ(h, v) >= 4 THEN total(h) ELSE 0
    [] c = "fullHouse" ->
         IF \E a, b \in DieValues : a # b /\ occ(h, a) = 2 /\ occ(h, b) = 3
         THEN 25 ELSE 0
    [] c = "smallStraight" ->
         IF \E lo \in 1..3 : lo..(lo + 3) \subseteq faces(h) THEN 30 ELSE 0
    [] c = "largeStraight" ->
         IF faces(h) = 1..5 \/ faces(h) = 2..6 THEN 40 ELSE 0
    [] c = "yahtzee" -> IF Cardinality(faces(h)) = 1 THEN 50 ELSE 0
    [] c = "chance"  -> total(h)

\* getPossibleScores has returned
Rendered == options # NoOptions

\* the backend gave no score for category c, so the hand is scored locally
scoredLocally(c) ==
  \/ possibleScores = Null
  \/ c \notin DOMAIN possibleScores

\* the entry of the returned options that stands for category c
entryOf(c) == options[pos(c)]

(* ------------------------------ claims --------------------------------- *)

\* C1: getPossibleScores returns exactly 13 entries whose category
\* identifiers are the canonical 13, each once, in the canonical order.
C1_CanonicalCategories ==
  Rendered =>
    /\ Len(options) = 13
    /\ {options[i].category : i \in DOMAIN options} = ScoreCategory
    /\ [i \in DOMAIN options |-> options[i].category] = CanonicalOrder

\* C2: for each of the 13 categories the returned option has isAvailable
\* exactly when the score sheet's entry for that category is null.
C2_AvailableIffUnset ==
  Rendered =>
    \A c \in ScoreCategory :
      entryOf(c).isAvailable <=> (gameState.scoreSheet[c] = Null)

\* C3: for every category the score of the returned option is the score the
\* category's rule gives the current dice.
C3_ScoreIsRuleScore ==
  Rendered =>
    \A c \in ScoreCategory : entryOf(c).score = ruleScore(gameState.dice, c)

\* C4: three-of-a-kind (four-of-a-kind) scores the sum of the dice when some
\* value occurs at least 3 (4) times, and 0 otherwise.
C4_NOfAKind ==
  Rendered =>
    \A c \in {"threeOfkind", "fourOfkind"} :
      scoredLocally(c) =>
        entryOf(c).score =
          (IF \E v \in DieValues :
                occ(gameState.dice, v) >= (IF c = "threeOfkind" THEN 3 ELSE 4)
           THEN total(gameState.dice) ELSE 0)

\* C5: full house scores 25 when one value occurs exactly twice and another
\* exactly three times, and 0 otherwise (0 for five of a kind).
C5_FullHouse ==
  (Rendered /\ scoredLocally("fullHouse")) =>
    entryOf("fullHouse").score =
      (IF \E a, b \in DieValues :
            a # b /\ occ(gameState.dice, a) = 2 /\ occ(gameState.dice, b) = 3
       THEN 25 ELSE 0)

\* C6: small straight scores 30 when the faces contain {1,2,3,4}, {2,3,4,5}
\* or {3,4,5,6}, and 0 otherwise.
C6_SmallStraight ==
  (Rendered /\ scoredLocally("smallStraight")) =>
    entryOf("smallStraight").score =
      (IF \/ {1, 2, 3, 4} \subseteq faces(gameState.dice)
          \/ {2, 3, 4, 5} \subseteq faces(gameState.dice)
          \/ {3, 4, 5, 6} \subseteq faces(gameState.dice)
       THEN 30 ELSE 0)

\* C7: large straight scores 40 when the faces are exactly {1,2,3,4,5} or
\* exactly {2,3,4,5,6}, and 0 otherwise.
C7_LargeStraight ==
  (Rendered /\ scoredLocally("largeStraight")) =>
    entryOf("largeStraight").score =
      (IF \/ faces(gameState.dice) = {1, 2, 3, 4, 5}
          \/ faces(gameState.dice) = {2, 3, 4, 5, 6}
       THEN 40 ELSE 0)

\* C8: an upper-section category with face value n scores (number of dice
\* showing n) times n.
C8_UpperSection ==
  Rendered =>
    \A n \in DieValues :
      scoredLocally(CanonicalOrder[n]) =>
        /\ options[n].category = CanonicalOrder[n]
        /\ options[n].score = occ(gameState.dice, n) * n

\* a hand with two or more dice of a face above 1 has been scored locally
C8_Witness ==
  /\ Rendered
  /\ possibleScores = Null
  /\ \E n \in 2..6 : occ(gameState.dice, n) >= 2 /\ options[n].score = 2 * n

\* C9: yahtzee scores 50 when all five dice show the same value, and 0
\* otherwise.
C9_Yahtzee ==
  (Rendered /\ scoredLocally("yahtzee")) =>
    /\ entryOf("yahtzee").category = "yahtzee"
    /\ entryOf("yahtzee").score =
         (IF \A i, j \in DOMAIN gameState.dice :
               gameState.dice[i] = gameState.dice[j]
          THEN 50 ELSE 0)

\* five equal dice have been scored locally as 50
C9_Witness ==
  /\ Rendered
  /\ possibleScores = Null
  /\ gameState.dice = <<4, 4, 4, 4, 4>>
  /\ entryOf("yahtzee").score = 50

\* C10: chance scores the sum of the five dice, whatever the hand.
C10_Chance ==
  (Rendered /\ scoredLocally("chance")) =>
    /\ entryOf("chance").category = "chance"
    /\ entryOf("chance").score = total(gameState.dice)

\* a hand that earns nothing in the lower section but chance has been scored
C10_Witness ==
  /\ Rendered
  /\ possibleScores = Null
  /\ gameState.dice = <<1, 3, 3, 5, 6>>
  /\ entryOf("chance").score = 18

\* a hand: exactly five dice, each showing 1..6
ValidHand(h) == Len(h) = 5 /\ \A i \in DOMAIN h : h[i] \in DieValues

\* C11: with a hand that has not exactly 5 dice or holds a value outside
\* 1..6, scoring fails with InvalidHand: no list of options is returned.
C11_InvalidHandFails == Rendered => ValidHand(gameState.dice)

\* C13: every category's option reports the backend's possibleScores entry
\* for that category when there is one, and the local score otherwise.
C13_ApiScoreElseLocal ==
  Rendered =>
    \A c \in ScoreCategory :
      entryOf(c).score =
        (IF possibleScores # Null /\ c \in DOMAIN possibleScores
         THEN possibleScores[c]
         ELSE calculateLocalScore(gameState.dice, c))

(* ---------------------- claims about the hook -------------------------- *)

sent(kind) ==
  {call \in BagToSet(inflight') :
     /\ call.kind = kind
     /\ CopiesIn(call, inflight') > CopiesIn(call, inflight)}

\* C14: toggleDie changes nothing when rollsLeft is 3 and every game-state
\* response empties selectedDice, so whenever rollsLeft is 3 no die is selected
C14_NoSelectionBeforeFirstRoll ==
  gameState.rollsLeft = 3 => gameState.selectedDice = <<>>

\* a turn of a running game starts, after a category was recorded, while a
\* roll that was sent with a selected die is still in flight
C14_Witness ==
  /\ gameState.rollsLeft = 3
  /\ currentGameId # Null
  /\ gameState.scoreSheet["ones"] # Null
  /\ \E call \in BagToSet(inflight) :
       call.kind = "rollDice" /\ call.selectedDice # <<>>

\* C15: a roll request is sent only when a game id is set and rollsLeft > 0;
\* otherwise rollDice sends nothing and leaves gameState, possibleScores,
\* loading and error as they were
C15_RollOnlyWhenAllowed ==
  [][/\ sent("rollDice") # {}
        => currentGameId # Null /\ gameState.rollsLeft > 0
     /\ (rollDice /\ (currentGameId = Null \/ gameState.rollsLeft <= 0))
        => /\ sent("rollDice") = {}
           /\ UNCHANGED <<gameState, possibleScores, loading, error>>]_vars

\* a roll of the current game is in flight, and so is a second call
C15_Witness ==
  /\ \E call \in BagToSet(inflight) :
       call.kind = "rollDice" /\ call.gameId = currentGameId
  /\ BagCardinality(inflight) = 2

CallSucceeds ==
  NewGameSucceeds \/ RollSucceeds \/ ScoreSucceeds \/ FetchSucceeds

\* a call of handleApiCall starts
CallStarts ==
  \E kind \in {"createNewGame", "rollDice", "selectScore",
                "getPossibleScores"} : sent(kind) # {}

\* C17: a failing call stores the error and leaves gameState, currentGameId
\* and possibleScores alone; after a succeeding call error is null; both set
\* loading to false
C17_ErrorNullAfterSuccess ==
  [][/\ CallFails
        => /\ error' # Null
           /\ UNCHANGED <<gameState, currentGameId, possibleScores>>
           /\ loading' = FALSE
     /\ CallSucceeds => error' = Null /\ loading' = FALSE]_vars

\* C17 as the code has it: error is set to null when a call starts, a failing
\* call stores the error and leaves gameState, currentGameId and
\* possibleScores alone, a succeeding call leaves error as it finds it; both
\* set loading to false (each implication is written consequent first)
C17_ErrorKeptBySuccess ==
  [][/\ CallStarts => error' = Null /\ loading' = TRUE
     /\ \/ /\ error' # Null
           /\ UNCHANGED <<gameState, currentGameId, possibleScores>>
           /\ loading' = FALSE
        \/ ~CallFails
     /\ \/ error' = error /\ loading' = FALSE
        \/ ~CallSucceeds]_vars

\* a roll has just resolved while the error of another call, which failed
\* after the roll was sent, is stored
C17_Witness ==
  /\ effectPending = "rollDice"
  /\ error # Null
  /\ ~loading

\* the dependencies of the effect
deps == <<currentGameId, gameState.dice, gameState.rollsLeft>>

\* a game is running and the dice have been rolled in this turn
activeAndRolled == currentGameId # Null /\ gameState.rollsLeft < 3

\* every change of the dependencies makes the effect due, and a due effect
\* sends a fetch when a game is running with rollsLeft < 3
FetchOnChange ==
  /\ deps' # deps => effectPending' # "none"
  /\ (effectPending # "none" /\ activeAndRolled)
     => sent("getPossibleScores") # {}

C19_PossibleScoresAreCurrent ==
  possibleScores # Null
    => fetchedFor = Some([gameId |-> currentGameId, dice |-> gameState.dice])

\* C20: loading is true exactly when a call of handleApiCall is in flight
C20_LoadingWhileInFlight ==
  loading <=> inflight # EmptyBag

====
